---- MODULE Spec2Model ----
(***************************************************************************)
(* Verdict engine of the multi-agent game tester                           *)
(* (backend/agents/orchestrator_agent.py).                                 *)
(*                                                                         *)
(* OrchestratorAgent._determine_verdict is a pure function of the repeat   *)
(* runs and of the cross-validation result.  It is modelled as the         *)
(* operator _determine_verdict below, built from the steps of the source   *)
(* (status extraction, base classification, cross-validation adjustment).  *)
(* The specification Spec draws the two arguments from bounded sets and    *)
(* applies the function to them.                                           *)
(*                                                                         *)
(* SpecOrchestrator is OrchestratorAgent.execute_tests: the loop over the  *)
(* test cases, the repeat attempts and the cross attempt of each, every    *)
(* await on the browser being a step that returns or raises.               *)
(* SpecExecutor is ExecutorAgent.execute_test, one step at a time.         *)
(* SpecScorer calls _determine_verdict and _calculate_reproducibility      *)
(* several times on the same arguments.  SpecApi is the session endpoints  *)
(* of main.py, a request that awaits an agent being two steps.             *)
(*                                                                         *)
(* Strings built by f-strings are modelled as the sequence of their        *)
(* pieces (literal text and formatted numbers), so that "ends with" and    *)
(* "contains" are statements about that sequence.                          *)
(***************************************************************************)
EXTENDS Integers, Sequences, FiniteSets, TLC

VARIABLES runs, cross_validation, verdict, pc

\* execute_tests: its argument, its loop position and its locals, the
\* BrowserController of the attempt under way, the calls received by the
\* knowledge base and the exception that left execute_tests
VARIABLES tests, test_pos, all_results, run_idx, browser, kb_calls, raised

\* execute_test: its argument, its result dictionary, the loop position and
\* the index kept by ArtifactCapture
VARIABLES test_case, result, step_index, artifact_index

\* the calls made of _determine_verdict and _calculate_reproducibility, each
\* with its arguments after the call and its return value
VARIABLES calls

\* main.py: the sessions table, the request suspended at an await, and the
\* response to the request answered last
VARIABLES sessions, inflight, response

verdictVars == <<runs, cross_validation, verdict, pc>>

orchestratorVars == <<tests, test_pos, all_results, run_idx, browser, kb_calls, raised>>

executorVars == <<test_case, result, step_index, artifact_index>>

apiVars == <<sessions, inflight, response>>

vars == <<runs, cross_validation, verdict, pc,
          tests, test_pos, all_results, run_idx, browser, kb_calls, raised,
          test_case, result, step_index, artifact_index,
          calls, sessions, inflight, response>>

(***************************************************************************)
(* Bounds                                                                  *)
(***************************************************************************)
\* longest repeat-run list given to _determine_verdict
MaxRuns == 4

(***************************************************************************)
(* Data                                                                    *)
(***************************************************************************)
\* the status of an attempt: executor_agent.py sets "passed", "failed" or
\* "error"; the orchestrator records "error" for an attempt that raised
RunStatus == {"passed", "failed", "error"}

\* r.get("status") of a run dictionary that has no "status" key
None == "None"

\* a run dictionary, reduced to the keys the verdict engine reads
RunResult == [run_index : 0..(MaxRuns + 1), status : RunStatus]

\* the lists of runs of length n, the entry at position i carrying run_index i
RunLists(n) == { r \in [1..n -> RunResult] : \A i \in 1..n : r[i].run_index = i - 1 }

\* the dictionaries _cross_agent_validate returns, reduced to the keys read
CrossValidation == [status : RunStatus, agrees_with_primary : BOOLEAN]

\* the f-string pieces of the verdict reasons
DisagreementSuffix == " (cross-validation disagreement)"

(***************************************************************************)
(* _determine_verdict                                                      *)
(***************************************************************************)
\* list.count(x)
RECURSIVE count(_, _)
count(seq, x) ==
    IF seq = <<>> THEN 0
    ELSE (IF Head(seq) = x THEN 1 ELSE 0) + count(Tail(seq), x)

\* [r.get("status") for r in runs if r.get("status")]
RECURSIVE Statuses(_)
Statuses(rs) ==
    IF rs = <<>> THEN <<>>
    ELSE IF Head(rs).status # None
         THEN <<Head(rs).status>> \o Statuses(Tail(rs))
         ELSE Statuses(Tail(rs))

\* IntPercent with round-to-nearest in place of int()'s truncation
IntPercentRounded(n, total) == (2 * n * 100 + total) \div (2 * total)

\* int((n / total) * 100): the quotient is a double, int() truncates toward
\* zero.  For total <= 12 the double product never falls below the exact
\* quotient's integer part, so the value is the integer floor of 100*n/total.
IntPercent(n, total) == (n * 100) \div total

\* the base classification with a tie of passed and failed taken as FLAKY
BaseClassificationTieFlaky(statuses) ==
    LET passed == count(statuses, "passed")
        failed == count(statuses, "failed")
        total  == Len(statuses)
    IN  IF passed = total
        THEN [result |-> "PASS", confidence |-> 100,
              reason |-> <<"All ", ToString(total), " runs passed">>,
              pass_count |-> passed, fail_count |-> failed, total_runs |-> total]
        ELSE IF failed = total
        THEN [result |-> "FAIL", confidence |-> 100,
              reason |-> <<"All ", ToString(total), " runs failed">>,
              pass_count |-> passed, fail_count |-> failed, total_runs |-> total]
        ELSE IF passed >= failed
        THEN [result |-> "FLAKY", confidence |-> IntPercent(passed, total),
              reason |-> <<"Inconsistent: ", ToString(passed), "/", ToString(total), " passed">>,
              pass_count |-> passed, fail_count |-> failed, total_runs |-> total]
        ELSE [result |-> "FAIL", confidence |-> IntPercent(failed, total),
              reason |-> <<"Majority failed: ", ToString(failed), "/", ToString(total)>>,
              pass_count |-> passed, fail_count |-> failed, total_runs |-> total]

\* the base classification from the repeat runs alone
BaseClassification(statuses) ==
    LET passed == count(statuses, "passed")
        failed == count(statuses, "failed")
        total  == Len(statuses)
    IN  IF passed = total
        THEN [result |-> "PASS", confidence |-> 100,
              reason |-> <<"All ", ToString(total), " runs passed">>,
              pass_count |-> passed, fail_count |-> failed, total_runs |-> total]
        ELSE IF failed = total
        THEN [result |-> "FAIL", confidence |-> 100,
              reason |-> <<"All ", ToString(total), " runs failed">>,
              pass_count |-> passed, fail_count |-> failed, total_runs |-> total]
        ELSE IF passed > failed
        THEN [result |-> "FLAKY", confidence |-> IntPercent(passed, total),
              reason |-> <<"Inconsistent: ", ToString(passed), "/", ToString(total), " passed">>,
              pass_count |-> passed, fail_count |-> failed, total_runs |-> total]
        ELSE [result |-> "FAIL", confidence |-> IntPercent(failed, total),
              reason |-> <<"Majority failed: ", ToString(failed), "/", ToString(total)>>,
              pass_count |-> passed, fail_count |-> failed, total_runs |-> total]

\* AgreementBonus without the min(100, ...) clamp
AgreementBonusUnclamped(confidence) == confidence + 10

\* min(100, confidence + 10)
AgreementBonus(confidence) == IF confidence + 10 < 100 THEN confidence + 10 ELSE 100

\* DisagreementPenalty without the max(0, ...) clamp
DisagreementPenaltyUnclamped(confidence) == confidence - 20

\* DisagreementPenalty with the penalty of 10 in place of 20
DisagreementPenaltyTen(confidence) == IF confidence - 10 > 0 THEN confidence - 10 ELSE 0

\* max(0, confidence - 20)
DisagreementPenalty(confidence) == IF confidence - 20 > 0 THEN confidence - 20 ELSE 0

\* CrossAdjust that downgrades every result, not only PASS, on disagreement
CrossAdjustDowngradeAll(base, cross) ==
    IF cross.agrees_with_primary
    THEN [base EXCEPT !.confidence = AgreementBonus(base.confidence)]
    ELSE [base EXCEPT !.confidence = DisagreementPenalty(base.confidence),
                      !.result = "FLAKY",
                      !.reason = base.reason \o <<DisagreementSuffix>>]

\* CrossAdjust that appends the disagreement note to every reason
CrossAdjustNoteAlways(base, cross) ==
    IF cross.agrees_with_primary
    THEN [base EXCEPT !.confidence = AgreementBonus(base.confidence)]
    ELSE [base EXCEPT !.confidence = DisagreementPenalty(base.confidence),
                      !.result = IF base.result = "PASS" THEN "FLAKY" ELSE base.result,
                      !.reason = base.reason \o <<DisagreementSuffix>>]

\* CrossAdjust that promotes a FLAKY base to PASS when the cross attempt agrees
CrossAdjustPromote(base, cross) ==
    IF cross.agrees_with_primary
    THEN [base EXCEPT !.confidence = AgreementBonus(base.confidence),
                      !.result = IF base.result = "FLAKY" THEN "PASS" ELSE base.result]
    ELSE IF base.result = "PASS"
         THEN [base EXCEPT !.confidence = DisagreementPenalty(base.confidence),
                           !.result = "FLAKY",
                           !.reason = base.reason \o <<DisagreementSuffix>>]
         ELSE [base EXCEPT !.confidence = DisagreementPenalty(base.confidence)]

\* the adjustment of the base classification by the cross-validation result
CrossAdjust(base, cross) ==
    IF cross.agrees_with_primary
    THEN [base EXCEPT !.confidence = AgreementBonus(base.confidence)]
    ELSE IF base.result = "PASS"
         THEN [base EXCEPT !.confidence = DisagreementPenalty(base.confidence),
                           !.result = "FLAKY",
                           !.reason = base.reason \o <<DisagreementSuffix>>]
         ELSE [base EXCEPT !.confidence = DisagreementPenalty(base.confidence)]

\* the verdict returned when no run has a status
NoValidRuns ==
    [result |-> "INCONCLUSIVE", confidence |-> 0,
     reason |-> <<"No valid runs completed">>]

\* _determine_verdict without the early return: the empty case is adjusted too
_determine_verdict_no_early_return(rs, cross) ==
    LET statuses == Statuses(rs)
    IN  IF statuses = <<>>
        THEN CrossAdjust(NoValidRuns, cross)
        ELSE CrossAdjust(BaseClassification(statuses), cross)

_determine_verdict(rs, cross) ==
    LET statuses == Statuses(rs)
    IN  IF statuses = <<>>
        THEN NoValidRuns
        ELSE CrossAdjust(BaseClassification(statuses), cross)

(***************************************************************************)
(* The specification: one call of _determine_verdict on drawn arguments    *)
(***************************************************************************)
\* the value of verdict before the call has returned
NoVerdict == [result |-> "UNSET"]

\* a BrowserController after __init__: every attribute is None
NewBrowserController ==
    [playwright |-> FALSE, browser |-> FALSE, context |-> FALSE, page |-> FALSE]

\* no execute_tests call is under way
OrchestratorIdle ==
    /\ tests = <<>>
    /\ test_pos = 0
    /\ all_results = <<>>
    /\ run_idx = 0
    /\ browser = NewBrowserController
    /\ kb_calls = <<>>
    /\ raised = None

\* no execute_test call is under way
ExecutorIdle ==
    /\ test_case = [id |-> 0, steps |-> <<>>]
    /\ result = [status |-> None]
    /\ step_index = 0
    /\ artifact_index = <<>>

\* no request is suspended at an await
NoRequest == [endpoint |-> None]

\* session["game_analysis"] and session["report"] while they are None
NoAnalysis == [game_type |-> None]

NoReport == [report_id |-> None]

\* no call of the two pure functions has been recorded
NoCalls == calls = <<>>

\* sessions = {} of main.py, no request received
ApiIdle ==
    /\ sessions = <<>>
    /\ inflight = NoRequest
    /\ response = [n |-> 0]

Init ==
    /\ \E n \in 0..MaxRuns : runs \in RunLists(n)
    /\ cross_validation \in CrossValidation
    /\ verdict = NoVerdict
    /\ pc = "call"
    /\ OrchestratorIdle
    /\ ExecutorIdle
    /\ NoCalls
    /\ ApiIdle

DetermineVerdict ==
    /\ pc = "call"
    /\ verdict' = _determine_verdict(runs, cross_validation)
    /\ pc' = "done"
    /\ UNCHANGED <<runs, cross_validation>>
    /\ UNCHANGED <<orchestratorVars, executorVars, calls, apiVars>>

Next == DetermineVerdict

Spec == Init /\ [][Next]_vars

(***************************************************************************)
(* Typing                                                                  *)
(***************************************************************************)
Results == {"PASS", "FAIL", "FLAKY", "INCONCLUSIVE"}

TypeOK ==
    /\ pc \in {"call", "done"}
    /\ Len(runs) <= MaxRuns
    /\ cross_validation \in CrossValidation
    /\ pc = "done" => verdict.result \in Results

(***************************************************************************)
(* BrowserController (browser/controller.py)                               *)
(***************************************************************************)
\* how a call of start() ends: "ok", or the await of start() that raised
StartOutcomes == {"ok", "playwright", "launch", "new_context", "new_page"}

\* the attributes of the controller once start() has returned or raised:
\* each await of start() sets one attribute, in this order
BrowserStart(outcome) ==
    [playwright |-> outcome # "playwright",
     browser    |-> outcome \notin {"playwright", "launch"},
     context    |-> outcome \notin {"playwright", "launch", "new_context"},
     page       |-> outcome = "ok"]

\* how a call of stop() ends: it awaits a close for every attribute that is
\* set, and each close can raise; with no attribute set it awaits nothing
StopOutcomes(b) ==
    {"ok"} \cup (IF b.context \/ b.browser \/ b.playwright THEN {"fault"} ELSE {})

\* how a call of navigate() followed by wait_for_timeout() ends
NavigateOutcomes == {"ok", "fault"}

\* str(e) of an exception raised by the browser
FaultMessage == "browser fault"

(***************************************************************************)
(* OrchestratorAgent.execute_tests                                         *)
(***************************************************************************)
\* most test cases given to one call of execute_tests
MaxTests == 2

\* settings.REPEAT_VALIDATION_COUNT
REPEAT_VALIDATION_COUNT == 3

\* the test cases of a session: identified by their id
TestList(n) == [i \in 1..n |-> [id |-> i]]

\* the status execute_test returns: "passed", "failed", or "error" when its
\* own except clause caught an exception
ExecuteTestStatuses == RunStatus

\* the run appended for an attempt whose execute_test returned: the run
\* index is 1-based
RecordedRunOneBased(status, idx) == [run_index |-> idx + 1, status |-> status]

\* result["run_index"] = run_idx; runs.append(result)
RecordedRun(status, idx) == [run_index |-> idx, status |-> status]

\* the run appended by the except clause of the repeat loop
ErrorRun(idx) == [run_index |-> idx, status |-> "error"]

\* the cross result with agreement decided against the majority of the runs
CrossResultMajority(primary_results, cross_status) ==
    LET primary_status == [i \in 1..Len(primary_results) |-> primary_results[i].status]
    IN  [status |-> cross_status,
         agrees_with_primary |->
             2 * count(primary_status, cross_status) > Len(primary_status),
         primary_statuses |-> primary_status,
         agent_id |-> "cross_validator"]

\* the dictionary returned when the cross attempt completed
CrossResult(primary_results, cross_status) ==
    LET primary_status == [i \in 1..Len(primary_results) |-> primary_results[i].status]
    IN  [status |-> cross_status,
         agrees_with_primary |->
             \A i \in 1..Len(primary_status) : primary_status[i] = cross_status,
         primary_statuses |-> primary_status,
         agent_id |-> "cross_validator"]

\* the dictionary returned by the except clause of _cross_agent_validate
CrossError(message) ==
    [status |-> "error", agrees_with_primary |-> FALSE, error |-> message]

\* the value of cross_validation before _cross_agent_validate has a result
NoCrossValidation == [status |-> None]

\* RoundPercent2 that cuts the digits after the second decimal
RoundPercent2Truncated(m, n) == (m * 10000) \div n

\* round(x, 2) of the percentage 100 * m / n, in hundredths of a percent.
\* For n <= 12 the quotient is never halfway between two hundredths and the
\* double rounding agrees with the exact one.
RoundPercent2(m, n) == (2 * m * 10000 + n) \div (2 * n)

\* the count of the runs that passed, in place of the most frequent status
PassedCount(statuses) == count(statuses, "passed")

\* counts.most_common(1)[0][1]
MostCommonCount(statuses) ==
    CHOOSE c \in { count(statuses, statuses[i]) : i \in 1..Len(statuses) } :
        \A j \in 1..Len(statuses) : count(statuses, statuses[j]) <= c

\* the score with the cross attempt counted among the attempts
_calculate_reproducibility_with_cross(rs) ==
    IF rs = <<>>
    THEN 0
    ELSE LET statuses == [i \in 1..Len(rs) |-> rs[i].status]
         IN  RoundPercent2(MostCommonCount(statuses), Len(statuses) + 1)

\* the reproducibility score, in hundredths of a percent
_calculate_reproducibility(rs) ==
    IF rs = <<>>
    THEN 0
    ELSE LET statuses == [i \in 1..Len(rs) |-> rs[i].status]
         IN  RoundPercent2(MostCommonCount(statuses), Len(statuses))

\* the dictionary returned by _execute_with_validation
ValidatedResult(test, rs, cross, v) ==
    [test_id |-> test.id,
     runs |-> rs,
     cross_validation |-> cross,
     verdict |-> v,
     reproducibility |-> _calculate_reproducibility(rs)]

\* the learning gate without the test on the verdict
LearningGateReproducibilityOnly(results) ==
    results.reproducibility >= 80 * 100

\* verdict == "PASS" and reproducibility >= 80
LearningGate(results) ==
    /\ results.verdict.result = "PASS"
    /\ results.reproducibility >= 80 * 100

\* no exception has left execute_tests
Running == raised = None

InitOrchestrator ==
    /\ \E n \in 0..MaxTests : tests = TestList(n)
    /\ test_pos = 1
    /\ all_results = <<>>
    /\ run_idx = 0
    /\ browser = NewBrowserController
    /\ kb_calls = <<>>
    /\ raised = None
    /\ runs = <<>>
    /\ cross_validation = NoCrossValidation
    /\ verdict = NoVerdict
    /\ pc = "next_test"
    /\ ExecutorIdle
    /\ NoCalls
    /\ ApiIdle

\* for test in tests: the call of _execute_with_validation up to the loop
BeginTest ==
    /\ Running
    /\ pc = "next_test"
    /\ test_pos <= Len(tests)
    /\ runs' = <<>>
    /\ run_idx' = 0
    /\ cross_validation' = NoCrossValidation
    /\ verdict' = NoVerdict
    /\ browser' = NewBrowserController
    /\ pc' = IF REPEAT_VALIDATION_COUNT > 0 THEN "repeat_start" ELSE "cross_start"
    /\ UNCHANGED <<tests, test_pos, all_results, kb_calls, raised, executorVars, calls, apiVars>>

\* browser = BrowserController(); await browser.start()
RepeatStart ==
    /\ Running
    /\ pc = "repeat_start"
    /\ \E outcome \in StartOutcomes :
           /\ browser' = BrowserStart(outcome)
           /\ IF outcome = "ok"
              THEN /\ pc' = "repeat_navigate"
                   /\ runs' = runs
              ELSE /\ pc' = "repeat_stop"
                   /\ runs' = Append(runs, ErrorRun(run_idx))
    /\ UNCHANGED <<tests, test_pos, all_results, run_idx, kb_calls, raised,
                   cross_validation, verdict, executorVars, calls, apiVars>>

\* await browser.navigate(url); await browser.wait_for_timeout(2000)
RepeatNavigate ==
    /\ Running
    /\ pc = "repeat_navigate"
    /\ \E outcome \in NavigateOutcomes :
           IF outcome = "ok"
           THEN /\ pc' = "repeat_execute"
                /\ runs' = runs
           ELSE /\ pc' = "repeat_stop"
                /\ runs' = Append(runs, ErrorRun(run_idx))
    /\ UNCHANGED <<tests, test_pos, all_results, run_idx, browser, kb_calls, raised,
                   cross_validation, verdict, executorVars, calls, apiVars>>

\* result = await executor.execute_test(...); runs.append(result)
RepeatExecute ==
    /\ Running
    /\ pc = "repeat_execute"
    /\ \E status \in ExecuteTestStatuses :
           runs' = Append(runs, RecordedRun(status, run_idx))
    /\ pc' = "repeat_stop"
    /\ UNCHANGED <<tests, test_pos, all_results, run_idx, browser, kb_calls, raised,
                   cross_validation, verdict, executorVars, calls, apiVars>>

\* the repeat loop going on after a stop() that raised, the browser of the
\* attempt left as it is
RepeatStopTolerated ==
    /\ Running
    /\ pc = "repeat_stop"
    /\ \E outcome \in StopOutcomes(browser) :
           /\ run_idx' = run_idx + 1
           /\ browser' = IF outcome = "ok" THEN NewBrowserController ELSE browser
           /\ pc' = IF run_idx + 1 < REPEAT_VALIDATION_COUNT
                    THEN "repeat_start" ELSE "cross_start"
           /\ raised' = raised
    /\ UNCHANGED <<tests, test_pos, all_results, kb_calls, runs,
                   cross_validation, verdict, executorVars, calls, apiVars>>

\* finally: await browser.stop(); then the next iteration, or the cross
\* validation after the last one.  An exception of stop() leaves the loop,
\* _execute_with_validation and execute_tests.
RepeatStop ==
    /\ Running
    /\ pc = "repeat_stop"
    /\ \E outcome \in StopOutcomes(browser) :
           IF outcome = "ok"
           THEN /\ run_idx' = run_idx + 1
                /\ browser' = NewBrowserController
                /\ pc' = IF run_idx + 1 < REPEAT_VALIDATION_COUNT
                         THEN "repeat_start" ELSE "cross_start"
                /\ raised' = raised
           ELSE /\ raised' = FaultMessage
                /\ UNCHANGED <<run_idx, browser, pc>>
    /\ UNCHANGED <<tests, test_pos, all_results, kb_calls, runs,
                   cross_validation, verdict, executorVars, calls, apiVars>>

\* _cross_agent_validate: browser = BrowserController(); await browser.start()
CrossStart ==
    /\ Running
    /\ pc = "cross_start"
    /\ \E outcome \in StartOutcomes :
           /\ browser' = BrowserStart(outcome)
           /\ IF outcome = "ok"
              THEN /\ pc' = "cross_navigate"
                   /\ cross_validation' = cross_validation
              ELSE /\ pc' = "cross_stop"
                   /\ cross_validation' = CrossError(FaultMessage)
    /\ UNCHANGED <<tests, test_pos, all_results, run_idx, kb_calls, raised,
                   runs, verdict, executorVars, calls, apiVars>>

\* await browser.navigate(url); await browser.wait_for_timeout(2000)
CrossNavigate ==
    /\ Running
    /\ pc = "cross_navigate"
    /\ \E outcome \in NavigateOutcomes :
           IF outcome = "ok"
           THEN /\ pc' = "cross_execute"
                /\ cross_validation' = cross_validation
           ELSE /\ pc' = "cross_stop"
                /\ cross_validation' = CrossError(FaultMessage)
    /\ UNCHANGED <<tests, test_pos, all_results, run_idx, browser, kb_calls, raised,
                   runs, verdict, executorVars, calls, apiVars>>

\* result = await cross_executor.execute_test(...) and the comparison with
\* the primary results; cross_validation holds the value of the return
\* statement while the finally clause runs
CrossExecute ==
    /\ Running
    /\ pc = "cross_execute"
    /\ \E status \in ExecuteTestStatuses :
           cross_validation' = CrossResult(runs, status)
    /\ pc' = "cross_stop"
    /\ UNCHANGED <<tests, test_pos, all_results, run_idx, browser, kb_calls, raised,
                   runs, verdict, executorVars, calls, apiVars>>

\* finally: await browser.stop(); an exception of stop() replaces the
\* return value and leaves execute_tests
CrossStop ==
    /\ Running
    /\ pc = "cross_stop"
    /\ \E outcome \in StopOutcomes(browser) :
           IF outcome = "ok"
           THEN /\ browser' = NewBrowserController
                /\ pc' = "verdict"
                /\ raised' = raised
           ELSE /\ raised' = FaultMessage
                /\ UNCHANGED <<browser, pc>>
    /\ UNCHANGED <<tests, test_pos, all_results, run_idx, kb_calls, runs,
                   cross_validation, verdict, executorVars, calls, apiVars>>

\* Validate with the result put at the head of all_results
ValidatePrepend ==
    /\ Running
    /\ pc = "verdict"
    /\ verdict' = _determine_verdict(runs, cross_validation)
    /\ all_results' = <<ValidatedResult(tests[test_pos], runs, cross_validation,
                            _determine_verdict(runs, cross_validation))>> \o all_results
    /\ pc' = "record"
    /\ UNCHANGED <<tests, test_pos, run_idx, browser, kb_calls, raised,
                   runs, cross_validation, executorVars, calls, apiVars>>

\* verdict = self._determine_verdict(runs, cross_validation), the returned
\* dictionary and all_results.append(test_results)
Validate ==
    /\ Running
    /\ pc = "verdict"
    /\ verdict' = _determine_verdict(runs, cross_validation)
    /\ all_results' = Append(all_results,
           ValidatedResult(tests[test_pos], runs, cross_validation,
                           _determine_verdict(runs, cross_validation)))
    /\ pc' = "record"
    /\ UNCHANGED <<tests, test_pos, run_idx, browser, kb_calls, raised,
                   runs, cross_validation, executorVars, calls, apiVars>>

\* self._record_for_learning(url, test, test_results): the write to the
\* knowledge base returns or raises, and the except clause logs
RecordForLearning ==
    /\ Running
    /\ pc = "record"
    /\ LET results == all_results[Len(all_results)]
       IN  IF LearningGate(results)
           THEN \E write_raised \in BOOLEAN :
                    kb_calls' = Append(kb_calls,
                        [test_id |-> tests[test_pos].id,
                         result |-> results.verdict.result,
                         raised |-> write_raised])
           ELSE kb_calls' = kb_calls
    /\ test_pos' = test_pos + 1
    /\ pc' = "next_test"
    /\ UNCHANGED <<tests, all_results, run_idx, browser, raised,
                   runs, cross_validation, verdict, executorVars, calls, apiVars>>

\* return all_results
ReturnResults ==
    /\ Running
    /\ pc = "next_test"
    /\ test_pos > Len(tests)
    /\ pc' = "returned"
    /\ UNCHANGED <<tests, test_pos, all_results, run_idx, browser, kb_calls, raised,
                   runs, cross_validation, verdict, executorVars, calls, apiVars>>

NextOrchestrator ==
    \/ BeginTest
    \/ RepeatStart
    \/ RepeatNavigate
    \/ RepeatExecute
    \/ RepeatStop
    \/ CrossStart
    \/ CrossNavigate
    \/ CrossExecute
    \/ CrossStop
    \/ Validate
    \/ RecordForLearning
    \/ ReturnResults

SpecOrchestrator == InitOrchestrator /\ [][NextOrchestrator]_vars

(***************************************************************************)
(* ExecutorAgent.execute_test (agents/executor_agent.py)                   *)
(***************************************************************************)
\* most steps of a test case
MaxSteps == 2

\* the action _interpret_step makes of a step's text: "click_target" is a
\* click with coordinates, "click_selector" a click with a selector
ActionTypes == {"navigate", "click_target", "click_selector", "wait", "type", "verify"}

\* the actions whose browser call _perform_action wraps in try/except: pass
GuardedActions == {"click_selector", "type"}

\* the actions for which _perform_action calls the browser at all
BrowserActions == ActionTypes \ {"verify"}

\* how the browser and the artifact capture behave during one step: the
\* call made by _perform_action, wait_for_timeout(500) and capture_all
StepEnvironments ==
    [perform : {"ok", "fault"}, settle : {"ok", "fault"}, capture : {"ok", "fault"}]

\* str(e) of the exceptions of the three calls
PerformFault == "browser operation failed"

SettleFault == "wait_for_timeout failed"

CaptureFault == "artifact capture failed"

\* _perform_action raises: the browser call raised and nothing swallowed it
PerformRaises(action, env) ==
    /\ env.perform = "fault"
    /\ action \in BrowserActions \ GuardedActions

\* the step reaches capture_all and capture_all returns
StepCaptured(action, env) ==
    /\ ~PerformRaises(action, env)
    /\ env.settle = "ok"
    /\ env.capture = "ok"

\* the step_result of _execute_step: the first exception of the try block
\* makes the step failed and is its error
_execute_step(action, index, env) ==
    IF PerformRaises(action, env)
    THEN [index |-> index, status |-> "failed", error |-> PerformFault]
    ELSE IF env.settle = "fault"
    THEN [index |-> index, status |-> "failed", error |-> SettleFault]
    ELSE IF env.capture = "fault"
    THEN [index |-> index, status |-> "failed", error |-> CaptureFault]
    ELSE [index |-> index, status |-> "passed", error |-> None]

\* the test cases given to execute_test: the steps as their actions
TestCases ==
    { [id |-> 1, steps |-> st] :
          st \in UNION { [1..n -> ActionTypes] : n \in 0..MaxSteps } }

InitExecutor ==
    /\ test_case \in TestCases
    /\ result = [status |-> "running", steps |-> <<>>, error |-> None, artifacts |-> <<>>]
    /\ step_index = 0
    /\ artifact_index = <<>>
    /\ pc = "steps"
    /\ runs = <<>>
    /\ cross_validation = NoCrossValidation
    /\ verdict = NoVerdict
    /\ OrchestratorIdle
    /\ NoCalls
    /\ ApiIdle

\* one iteration of the loop over the steps: _execute_step, the append and
\* the break on a failed step
ExecuteStep ==
    /\ pc = "steps"
    /\ result.status = "running"
    /\ step_index < Len(test_case.steps)
    /\ \E env \in StepEnvironments :
           LET action == test_case.steps[step_index + 1]
               step_result == _execute_step(action, step_index, env)
           IN  /\ result' =
                      [result EXCEPT
                          !.steps = Append(@, step_result),
                          !.status = IF step_result.status = "failed" THEN "failed" ELSE @,
                          !.error = IF step_result.status = "failed"
                                    THEN step_result.error ELSE @]
               /\ artifact_index' =
                      IF StepCaptured(action, env)
                      THEN Append(artifact_index,
                                  [step_index |-> step_index, step_name |-> "step"])
                      ELSE artifact_index
               /\ step_index' =
                      IF step_result.status = "failed" THEN step_index ELSE step_index + 1
    /\ UNCHANGED <<test_case, pc, runs, cross_validation, verdict, orchestratorVars, calls, apiVars>>

\* after the loop: "running" becomes "passed", the final capture_all, the
\* except clause of execute_test, and the return
FinishTest ==
    /\ pc = "steps"
    /\ \/ result.status = "failed"
       \/ step_index = Len(test_case.steps)
    /\ \E capture \in {"ok", "fault"} :
           LET status == IF result.status = "running" THEN "passed" ELSE result.status
           IN  IF capture = "ok"
               THEN /\ result' = [result EXCEPT !.status = status,
                                                !.artifacts = Append(@, "final")]
                    /\ artifact_index' =
                           Append(artifact_index,
                                  [step_index |-> Len(test_case.steps), step_name |-> "final"])
               ELSE /\ result' = [result EXCEPT !.status = "error",
                                                !.error = CaptureFault]
                    /\ artifact_index' = artifact_index
    /\ pc' = "returned"
    /\ UNCHANGED <<test_case, step_index, runs, cross_validation, verdict, orchestratorVars, calls, apiVars>>

NextExecutor ==
    \/ ExecuteStep
    \/ FinishTest

SpecExecutor == InitExecutor /\ [][NextExecutor]_vars

(***************************************************************************)
(* The two pure functions, called repeatedly on the same arguments         *)
(***************************************************************************)
\* longest run list given to _calculate_reproducibility
MaxScoredRuns == 5

\* most calls recorded in one behaviour
MaxCalls == 3

\* the record of a call: the arguments it was given and what it returned
CallRecord(function, returned) ==
    [function |-> function, runs |-> runs, cross_validation |-> cross_validation,
     returned |-> returned]

InitScorer ==
    /\ \E n \in 0..MaxScoredRuns : runs \in RunLists(n)
    /\ cross_validation \in CrossValidation
    /\ verdict = NoVerdict
    /\ pc = "call"
    /\ calls = <<>>
    /\ OrchestratorIdle
    /\ ExecutorIdle
    /\ ApiIdle

\* _determine_verdict that drops the runs without a verdict-relevant status
\* from the caller's list while it filters them
CallDetermineVerdictInPlace ==
    /\ Len(calls) < MaxCalls
    /\ calls' = Append(calls,
           CallRecord("_determine_verdict", _determine_verdict(runs, cross_validation)))
    /\ verdict' = _determine_verdict(runs, cross_validation)
    /\ runs' = SelectSeq(runs, LAMBDA r : r.status # "error")
    /\ UNCHANGED <<cross_validation, pc, orchestratorVars, executorVars, apiVars>>

\* verdict = self._determine_verdict(runs, cross_validation): the function
\* builds new lists and strings and assigns to no argument and no attribute
CallDetermineVerdict ==
    /\ Len(calls) < MaxCalls
    /\ calls' = Append(calls,
           CallRecord("_determine_verdict", _determine_verdict(runs, cross_validation)))
    /\ verdict' = _determine_verdict(runs, cross_validation)
    /\ UNCHANGED <<runs, cross_validation, pc, orchestratorVars, executorVars, apiVars>>

\* self._calculate_reproducibility(runs)
CallCalculateReproducibility ==
    /\ Len(calls) < MaxCalls
    /\ calls' = Append(calls,
           CallRecord("_calculate_reproducibility", _calculate_reproducibility(runs)))
    /\ UNCHANGED <<runs, cross_validation, verdict, pc,
                   orchestratorVars, executorVars, apiVars>>

\* the state of the orchestrator changes between two calls: its knowledge
\* base receives a result
KnowledgeBaseWrite ==
    /\ kb_calls = <<>>
    /\ kb_calls' = <<[test_id |-> 0, result |-> "PASS", raised |-> FALSE]>>
    /\ UNCHANGED <<runs, cross_validation, verdict, pc, calls,
                   tests, test_pos, all_results, run_idx, browser, raised,
                   executorVars, apiVars>>

NextScorer ==
    \/ CallDetermineVerdict
    \/ CallCalculateReproducibility
    \/ KnowledgeBaseWrite

SpecScorer == InitScorer /\ [][NextScorer]_vars

(***************************************************************************)
(* The session endpoints (main.py)                                         *)
(***************************************************************************)
\* most sessions created in one behaviour
MaxSessions == 1

\* most requests received in one behaviour
MaxRequests == 7

\* most test cases the planner generates for a session
MaxApiTests == 1

\* the session ids a request can carry: those of the sessions created, and
\* one that analyze_game never hands out
RequestIds == 1..(MaxSessions + 1)

\* the endpoints that take a session id
SessionEndpoints == {"generate", "rank", "execute", "report"}

\* the dictionary analyze_game stores for a new session
NewSession ==
    [status |-> "analyzing", game_analysis |-> NoAnalysis, test_cases |-> <<>>,
     ranked_tests |-> <<>>, execution_results |-> <<>>, report |-> NoReport,
     error |-> None]

\* what GameAnalyzerAgent.analyze returns: the analysis, or the fallback
\* analysis its except clause builds when a browser operation raised
GameAnalyses == {[game_type |-> "unknown", error |-> None],
                 [game_type |-> "puzzle", error |-> FaultMessage]}

\* the verdicts execute_tests gives a test case validated with three runs
ApiVerdicts == {"PASS", "FAIL", "FLAKY"}

\* the lists orchestrator.execute_tests returns for the ranked tests
ExecutionResults(ranked) ==
    { [i \in 1..Len(ranked) |-> [test_id |-> ranked[i].id, verdict |-> v[i]]] :
          v \in [1..Len(ranked) -> ApiVerdicts] }

\* AnalyzerAgent._format_test_results
_format_test_results(results) ==
    [i \in 1..Len(results) |->
        [test_id |-> results[i].test_id, verdict |-> results[i].verdict]]

\* AnalyzerAgent.generate_report, reduced to the keys made of the results
generate_report(session_id, execution_results) ==
    [report_id |-> session_id,
     test_results |-> _format_test_results(execution_results)]

\* the data an endpoint requires of the session: not session.get(key)
Prerequisite(endpoint, session) ==
    CASE endpoint = "generate" -> session.game_analysis # NoAnalysis
      [] endpoint = "rank"     -> session.test_cases # <<>>
      [] endpoint = "execute"  -> session.ranked_tests # <<>>
      [] endpoint = "report"   -> session.execution_results # <<>>

\* a request can still be received
CanReceive ==
    response.n + (IF inflight = NoRequest THEN 0 ELSE 1) < MaxRequests

Response(endpoint, session_id, code, body) ==
    [n |-> response.n + 1, endpoint |-> endpoint, session_id |-> session_id,
     code |-> code, body |-> body]

\* the response of analyze_game: with whether start() had returned and
\* whether stop() was called, and the browser as the request leaves it
AnalyzeResponse(code, started, stop_called, b) ==
    [n |-> response.n + 1, endpoint |-> "analyze", session_id |-> inflight.session_id,
     code |-> code, body |-> None,
     started |-> started, stop_called |-> stop_called, browser |-> b]

InitApi ==
    /\ sessions = <<>>
    /\ inflight = NoRequest
    /\ response = [n |-> 0]
    /\ runs = <<>>
    /\ cross_validation = NoCrossValidation
    /\ verdict = NoVerdict
    /\ pc = "serving"
    /\ OrchestratorIdle
    /\ ExecutorIdle
    /\ NoCalls

\* analyze_game up to await browser.start(): the components are built and
\* the session is created; a constructor that raises ends the request
\* before the session exists
AnalyzeGameBegin ==
    /\ inflight = NoRequest
    /\ CanReceive
    /\ Len(sessions) < MaxSessions
    /\ \E components \in {"ok", "fault"} :
           IF components = "ok"
           THEN /\ sessions' = Append(sessions, NewSession)
                /\ inflight' = [endpoint |-> "analyze", session_id |-> Len(sessions) + 1,
                                stage |-> "start", browser |-> NewBrowserController,
                                analysis |-> NoAnalysis]
                /\ response' = response
           ELSE /\ response' = [n |-> response.n + 1, endpoint |-> "analyze",
                                session_id |-> None, code |-> 500, body |-> None,
                                started |-> FALSE, stop_called |-> FALSE,
                                browser |-> NewBrowserController]
                /\ UNCHANGED <<sessions, inflight>>
    /\ UNCHANGED <<verdictVars, orchestratorVars, executorVars, calls>>

\* await browser.start(); when it raises, the except clause marks the
\* session and the request ends with 500
AnalyzeGameStart ==
    /\ inflight # NoRequest
    /\ inflight.endpoint = "analyze"
    /\ inflight.stage = "start"
    /\ \E outcome \in StartOutcomes :
           IF outcome = "ok"
           THEN /\ inflight' = [inflight EXCEPT !.stage = "analyze",
                                                !.browser = BrowserStart(outcome)]
                /\ UNCHANGED <<sessions, response>>
           ELSE /\ sessions' = [sessions EXCEPT ![inflight.session_id].status = "error",
                                                ![inflight.session_id].error = FaultMessage]
                /\ response' = AnalyzeResponse(500, FALSE, FALSE, BrowserStart(outcome))
                /\ inflight' = NoRequest
    /\ UNCHANGED <<verdictVars, orchestratorVars, executorVars, calls>>

\* analyze with no handler of its own: a browser operation that raises
\* reaches the except clause of analyze_game
AnalyzeGameAnalyzeRaising ==
    /\ inflight # NoRequest
    /\ inflight.endpoint = "analyze"
    /\ inflight.stage = "analyze"
    /\ \E analysis \in GameAnalyses :
           IF analysis.error = None
           THEN /\ inflight' = [inflight EXCEPT !.stage = "stop", !.analysis = analysis]
                /\ UNCHANGED <<sessions, response>>
           ELSE /\ sessions' = [sessions EXCEPT ![inflight.session_id].status = "error",
                                                ![inflight.session_id].error = FaultMessage]
                /\ response' = AnalyzeResponse(500, TRUE, FALSE, inflight.browser)
                /\ inflight' = NoRequest
    /\ UNCHANGED <<verdictVars, orchestratorVars, executorVars, calls>>

\* analysis = await game_analyzer.analyze(...): every browser operation of
\* analyze is inside its try block, so it returns, with the fallback
\* analysis when one of them raised
AnalyzeGameAnalyze ==
    /\ inflight # NoRequest
    /\ inflight.endpoint = "analyze"
    /\ inflight.stage = "analyze"
    /\ \E analysis \in GameAnalyses :
           inflight' = [inflight EXCEPT !.stage = "stop", !.analysis = analysis]
    /\ UNCHANGED <<sessions, response>>
    /\ UNCHANGED <<verdictVars, orchestratorVars, executorVars, calls>>

\* await browser.stop(), then the analysis is stored; when stop() raises
\* the except clause marks the session
AnalyzeGameStop ==
    /\ inflight # NoRequest
    /\ inflight.endpoint = "analyze"
    /\ inflight.stage = "stop"
    /\ \E outcome \in StopOutcomes(inflight.browser) :
           IF outcome = "ok"
           THEN /\ sessions' = [sessions EXCEPT
                                   ![inflight.session_id].game_analysis = inflight.analysis,
                                   ![inflight.session_id].status = "analyzed"]
                /\ response' = AnalyzeResponse(200, TRUE, TRUE, NewBrowserController)
           ELSE /\ sessions' = [sessions EXCEPT ![inflight.session_id].status = "error",
                                                ![inflight.session_id].error = FaultMessage]
                /\ response' = AnalyzeResponse(500, TRUE, TRUE, inflight.browser)
    /\ inflight' = NoRequest
    /\ UNCHANGED <<verdictVars, orchestratorVars, executorVars, calls>>

\* the rejection that also marks the session it rejects
RejectRequestMarksError ==
    /\ CanReceive
    /\ \E endpoint \in SessionEndpoints, session_id \in RequestIds :
           IF session_id \notin DOMAIN sessions
           THEN /\ response' = Response(endpoint, session_id, 404, "Session not found")
                /\ sessions' = sessions
           ELSE /\ ~Prerequisite(endpoint, sessions[session_id])
                /\ response' = Response(endpoint, session_id, 400, "prerequisite missing")
                /\ sessions' = [sessions EXCEPT ![session_id].status = "error"]
    /\ UNCHANGED <<inflight, verdictVars, orchestratorVars, executorVars, calls>>

\* the two checks at the head of generate_tests, rank_tests, execute_tests
\* and get_report: HTTPException 404 for an unknown session id, 400 when
\* the data of the stage before is missing
RejectRequest ==
    /\ CanReceive
    /\ \E endpoint \in SessionEndpoints, session_id \in RequestIds :
           IF session_id \notin DOMAIN sessions
           THEN response' = Response(endpoint, session_id, 404, "Session not found")
           ELSE /\ ~Prerequisite(endpoint, sessions[session_id])
                /\ response' = Response(endpoint, session_id, 400, "prerequisite missing")
    /\ UNCHANGED <<sessions, inflight, verdictVars, orchestratorVars, executorVars, calls>>

\* the status an endpoint sets before it awaits its agent
BusyStatus(endpoint) ==
    CASE endpoint = "generate" -> "generating_tests"
      [] endpoint = "rank"     -> "ranking_tests"
      [] endpoint = "execute"  -> "executing_tests"

\* generate_tests, rank_tests and execute_tests past their checks, up to
\* the await of the agent
BeginRequest(endpoint) ==
    /\ CanReceive
    /\ \E session_id \in DOMAIN sessions :
           /\ Prerequisite(endpoint, sessions[session_id])
           /\ sessions' = [sessions EXCEPT ![session_id].status = BusyStatus(endpoint)]
           /\ inflight' = [endpoint |-> endpoint, session_id |-> session_id]
    /\ UNCHANGED <<response, verdictVars, orchestratorVars, executorVars, calls>>

\* the except clause of the three endpoints
FailRequest ==
    /\ sessions' = [sessions EXCEPT ![inflight.session_id].status = "error",
                                    ![inflight.session_id].error = FaultMessage]
    /\ response' = Response(inflight.endpoint, inflight.session_id, 500, FaultMessage)

GenerateTestsBegin ==
    /\ inflight = NoRequest
    /\ BeginRequest("generate")

\* planner.generate_tests returns at least one test case, or raises
GenerateTestsEnd ==
    /\ inflight # NoRequest
    /\ inflight.endpoint = "generate"
    /\ \/ \E n \in 1..MaxApiTests :
              /\ sessions' = [sessions EXCEPT
                                 ![inflight.session_id].test_cases = TestList(n),
                                 ![inflight.session_id].status = "tests_generated"]
              /\ response' = Response("generate", inflight.session_id, 200, TestList(n))
       \/ FailRequest
    /\ inflight' = NoRequest
    /\ UNCHANGED <<verdictVars, orchestratorVars, executorVars, calls>>

RankTestsBegin ==
    /\ inflight = NoRequest
    /\ BeginRequest("rank")

\* ranker.rank_tests returns the first tests of its ranking, or raises
RankTestsEnd ==
    /\ inflight # NoRequest
    /\ inflight.endpoint = "rank"
    /\ \/ \E n \in 1..Len(sessions[inflight.session_id].test_cases) :
              /\ sessions' = [sessions EXCEPT
                                 ![inflight.session_id].ranked_tests = TestList(n),
                                 ![inflight.session_id].status = "tests_ranked"]
              /\ response' = Response("rank", inflight.session_id, 200, TestList(n))
       \/ FailRequest
    /\ inflight' = NoRequest
    /\ UNCHANGED <<verdictVars, orchestratorVars, executorVars, calls>>

ExecuteTestsBegin ==
    /\ inflight = NoRequest
    /\ BeginRequest("execute")

\* orchestrator.execute_tests returns its list of results, or raises
ExecuteTestsEnd ==
    /\ inflight # NoRequest
    /\ inflight.endpoint = "execute"
    /\ \/ \E results \in ExecutionResults(sessions[inflight.session_id].ranked_tests) :
              /\ sessions' = [sessions EXCEPT
                                 ![inflight.session_id].execution_results = results,
                                 ![inflight.session_id].status = "tests_executed"]
              /\ response' = Response("execute", inflight.session_id, 200, results)
       \/ FailRequest
    /\ inflight' = NoRequest
    /\ UNCHANGED <<verdictVars, orchestratorVars, executorVars, calls>>

\* get_report past its checks: the report is generated if the session has
\* none, and the session's report is returned; generate_report can raise
\* while it writes the report file
GetReport ==
    /\ CanReceive
    /\ \E session_id \in DOMAIN sessions :
           LET session == sessions[session_id]
           IN  /\ Prerequisite("report", session)
               /\ IF session.report = NoReport
                  THEN \/ LET report == generate_report(session_id, session.execution_results)
                          IN  /\ sessions' = [sessions EXCEPT ![session_id].report = report]
                              /\ response' = Response("report", session_id, 200, report)
                       \/ /\ response' = Response("report", session_id, 500, FaultMessage)
                          /\ sessions' = sessions
                  ELSE /\ response' = Response("report", session_id, 200, session.report)
                       /\ sessions' = sessions
    /\ UNCHANGED <<inflight, verdictVars, orchestratorVars, executorVars, calls>>

NextApi ==
    \/ AnalyzeGameBegin
    \/ AnalyzeGameStart
    \/ AnalyzeGameAnalyze
    \/ AnalyzeGameStop
    \/ RejectRequest
    \/ GenerateTestsBegin
    \/ GenerateTestsEnd
    \/ RankTestsBegin
    \/ RankTestsEnd
    \/ ExecuteTestsBegin
    \/ ExecuteTestsEnd
    \/ GetReport

SpecApi == InitApi /\ [][NextApi]_vars

(***************************************************************************)
(* Vocabulary of the properties, written on the run list itself            *)
(***************************************************************************)
NumWithStatus(rs, s) == Cardinality({ i \in 1..Len(rs) : rs[i].status = s })

AllStatus(rs, s) == \A i \in 1..Len(rs) : rs[i].status = s

Returned == pc = "done"

\* the cross-validation adjustment of a confidence, as the specification states it
Adjusted(confidence, agrees) ==
    IF agrees
    THEN (IF confidence + 10 > 100 THEN 100 ELSE confidence + 10)
    ELSE (IF confidence < 20 THEN 0 ELSE confidence - 20)

\* n/total as a percentage rounded to the nearest integer
RoundedPercent(n, total) == (200 * n + total) \div (2 * total)

\* n/total as a percentage truncated to an integer
TruncatedPercent(n, total) == (100 * n) \div total

\* the pieces occur in the reason, contiguously and in order
ContainsPieces(reason, pieces) ==
    \E k \in 0..(Len(reason) - Len(pieces)) :
        \A j \in 1..Len(pieces) : reason[k + j] = pieces[j]

\* passed > failed but not all runs passed
MostlyPassed(rs) ==
    /\ NumWithStatus(rs, "passed") > NumWithStatus(rs, "failed")
    /\ NumWithStatus(rs, "passed") # Len(rs)

TwoPassedOneFailed ==
    /\ Len(runs) = 3
    /\ runs[1].status = "passed"
    /\ runs[2].status = "passed"
    /\ runs[3].status = "failed"

(***************************************************************************)
(* C1                                                                      *)
(***************************************************************************)
\* C1: when every repeat run has status error (no run passed or failed),
\* the verdict's result is INCONCLUSIVE.
\* Violated by the code: error statuses are kept by the filter of line 254,
\* so runs = [error] reaches the final else branch and yields FAIL.
C1_ErrorOnlyInconclusive ==
    (Returned /\ AllStatus(runs, "error")) => verdict.result = "INCONCLUSIVE"

(***************************************************************************)
(* C2                                                                      *)
(***************************************************************************)
\* C2: for a non-empty run list whose statuses are all passed and a cross
\* validation that agrees, the verdict is PASS with confidence 100.
C2_AllPassedAgree ==
    (/\ Returned
     /\ Len(runs) > 0
     /\ AllStatus(runs, "passed")
     /\ cross_validation.agrees_with_primary)
    => (verdict.result = "PASS" /\ verdict.confidence = 100)

C2_Witness ==
    /\ Returned
    /\ Len(runs) = 3
    /\ AllStatus(runs, "passed")
    /\ cross_validation.agrees_with_primary
    /\ verdict.result = "PASS"

(***************************************************************************)
(* C3                                                                      *)
(***************************************************************************)
\* C3 as stated: for a non-empty run list whose statuses are all failed the
\* verdict is FAIL with confidence 100, for every cross-validation input.
C3_AllFailedConfidence100 ==
    (Returned /\ Len(runs) > 0 /\ AllStatus(runs, "failed"))
    => (verdict.result = "FAIL" /\ verdict.confidence = 100)

\* C3 amended: for a non-empty run list whose statuses are all failed the
\* verdict is FAIL for every cross-validation input; its confidence is 100
\* when the cross validation agrees and 80 when it does not.
C3_AllFailed ==
    (Returned /\ Len(runs) > 0 /\ AllStatus(runs, "failed"))
    => /\ verdict.result = "FAIL"
       /\ verdict.confidence =
              (IF cross_validation.agrees_with_primary THEN 100 ELSE 80)

C3_Witness ==
    /\ Returned
    /\ Len(runs) = 3
    /\ AllStatus(runs, "failed")
    /\ ~cross_validation.agrees_with_primary
    /\ verdict.result = "FAIL"
    /\ verdict.confidence = 80

(***************************************************************************)
(* C4                                                                      *)
(***************************************************************************)
\* C4: for every run list over {passed, failed, error}, the empty one
\* included, and every cross-validation result, the confidence of the
\* verdict is an integer in 0..100.
C4_ConfidenceRange ==
    Returned => verdict.confidence \in 0..100

\* the penalty met the lower clamp: every run errored, the cross disagrees
C4_Witness ==
    /\ Returned
    /\ Len(runs) > 0
    /\ AllStatus(runs, "error")
    /\ ~cross_validation.agrees_with_primary
    /\ verdict.confidence = 0

(***************************************************************************)
(* C5                                                                      *)
(***************************************************************************)
\* C5: for the empty run list the verdict is INCONCLUSIVE with confidence 0
\* and reason "No valid runs completed", whatever the cross validation is;
\* the cross-validation adjustment is not applied.
C5_EmptyRuns ==
    (Returned /\ runs = <<>>)
    => /\ verdict.result = "INCONCLUSIVE"
       /\ verdict.confidence = 0
       /\ verdict.reason = <<"No valid runs completed">>

C5_Witness ==
    /\ Returned
    /\ runs = <<>>
    /\ cross_validation.agrees_with_primary
    /\ verdict.result = "INCONCLUSIVE"

(***************************************************************************)
(* C6                                                                      *)
(***************************************************************************)
\* C6 as stated: when passed > failed but not all runs passed the verdict
\* is FLAKY, its confidence is 100*passed/total rounded to the nearest
\* integer and then adjusted by the cross validation; for [passed, passed,
\* failed] with a disagreeing cross validation it is FLAKY with confidence
\* 47 and a reason containing "Inconsistent: 2/3 passed".
C6_FlakyRounded ==
    /\ (Returned /\ MostlyPassed(runs))
       => /\ verdict.result = "FLAKY"
          /\ verdict.confidence =
                 Adjusted(RoundedPercent(NumWithStatus(runs, "passed"), Len(runs)),
                          cross_validation.agrees_with_primary)
    /\ (Returned /\ TwoPassedOneFailed /\ ~cross_validation.agrees_with_primary)
       => /\ verdict.result = "FLAKY"
          /\ verdict.confidence = 47
          /\ ContainsPieces(verdict.reason, <<"Inconsistent: ", "2", "/", "3", " passed">>)

\* C6 amended: when passed > failed but not all runs passed the verdict is
\* FLAKY, its confidence is 100*passed/total truncated to an integer (not
\* rounded to the nearest) and then adjusted by the cross validation; for
\* [passed, passed, failed] with a disagreeing cross validation it is FLAKY
\* with confidence 46 (base 66 minus 20) and a reason containing
\* "Inconsistent: 2/3 passed".
C6_FlakyTruncated ==
    /\ (Returned /\ MostlyPassed(runs))
       => /\ verdict.result = "FLAKY"
          /\ verdict.confidence =
                 Adjusted(TruncatedPercent(NumWithStatus(runs, "passed"), Len(runs)),
                          cross_validation.agrees_with_primary)
    /\ (Returned /\ TwoPassedOneFailed /\ ~cross_validation.agrees_with_primary)
       => /\ verdict.result = "FLAKY"
          /\ verdict.confidence = 46
          /\ ContainsPieces(verdict.reason, <<"Inconsistent: ", "2", "/", "3", " passed">>)

C6_Witness ==
    /\ Returned
    /\ TwoPassedOneFailed
    /\ ~cross_validation.agrees_with_primary
    /\ verdict.result = "FLAKY"
    /\ verdict.confidence = 46

(***************************************************************************)
(* C7                                                                      *)
(***************************************************************************)
\* C7: for a non-empty run list whose statuses are all passed and a cross
\* validation that does not agree, the verdict is downgraded to FLAKY with
\* confidence 80 and its reason ends with "(cross-validation disagreement)".
C7_PassDowngraded ==
    (/\ Returned
     /\ Len(runs) > 0
     /\ AllStatus(runs, "passed")
     /\ ~cross_validation.agrees_with_primary)
    => /\ verdict.result = "FLAKY"
       /\ verdict.confidence = 80
       /\ verdict.reason[Len(verdict.reason)] = " (cross-validation disagreement)"

C7_Witness ==
    /\ Returned
    /\ Len(runs) = 3
    /\ AllStatus(runs, "passed")
    /\ ~cross_validation.agrees_with_primary
    /\ verdict.result = "FLAKY"
    /\ verdict.reason = <<"All ", "3", " runs passed", " (cross-validation disagreement)">>

(***************************************************************************)
(* C8                                                                      *)
(***************************************************************************)
\* C8: when the base classification of the run list is FAIL or FLAKY (the
\* list has a status and not all statuses are passed), the verdict's result
\* is that base classification and its reason is the base reason for an
\* agreeing and for a disagreeing cross validation alike; the confidence is
\* what differs between the two.
C8_CrossKeepsFailAndFlaky ==
    (Returned /\ Len(runs) > 0 /\ ~AllStatus(runs, "passed"))
    => /\ verdict.result \in {"FAIL", "FLAKY"}
       /\ verdict.result = BaseClassification(Statuses(runs)).result
       /\ verdict.reason = BaseClassification(Statuses(runs)).reason
       /\ \A other \in CrossValidation :
              LET v == _determine_verdict(runs, other)
              IN  /\ v.result = verdict.result
                  /\ v.reason = verdict.reason
                  /\ (other.agrees_with_primary # cross_validation.agrees_with_primary)
                         => v.confidence # verdict.confidence

C8_Witness ==
    /\ Returned
    /\ TwoPassedOneFailed
    /\ ~cross_validation.agrees_with_primary
    /\ verdict.result = "FLAKY"
    /\ _determine_verdict(runs, [cross_validation EXCEPT !.agrees_with_primary = TRUE]).result = "FLAKY"

(***************************************************************************)
(* C9                                                                      *)
(***************************************************************************)
\* C9: the verdict is PASS only if every repeat-run status is passed and
\* the cross validation agrees; whether the verdict is FAIL depends on the
\* repeat-run statuses alone, not on the cross validation; when the runs
\* contain both a passed and a failed status the verdict is never PASS.
C9_CrossNeverManufactures ==
    Returned
    => /\ verdict.result = "PASS"
          => /\ Len(runs) > 0
             /\ AllStatus(runs, "passed")
             /\ cross_validation.agrees_with_primary
       /\ \A other \in CrossValidation :
              (_determine_verdict(runs, other).result = "FAIL")
                  <=> (verdict.result = "FAIL")
       /\ (NumWithStatus(runs, "passed") > 0 /\ NumWithStatus(runs, "failed") > 0)
          => verdict.result # "PASS"

\* mixed runs with an agreeing cross validation: the verdict stays FLAKY
C9_Witness ==
    /\ Returned
    /\ TwoPassedOneFailed
    /\ cross_validation.agrees_with_primary
    /\ cross_validation.status = "passed"
    /\ verdict.result = "FLAKY"

(***************************************************************************)
(* C10                                                                     *)
(***************************************************************************)
\* C10: every verdict, the INCONCLUSIVE one for the empty run list
\* included, carries pass_count, fail_count and total_runs; total_runs is
\* the number of runs, pass_count + fail_count <= total_runs, and a run
\* with status error counts in neither pass_count nor fail_count.
\* Violated by the code: the early return of lines 256-261 builds a verdict
\* with the keys result, confidence and reason only.
C10_VerdictCounts ==
    Returned
    => /\ {"pass_count", "fail_count", "total_runs"} \subseteq DOMAIN verdict
       /\ verdict.total_runs = Len(runs)
       /\ verdict.pass_count + verdict.fail_count <= verdict.total_runs
       /\ verdict.pass_count = NumWithStatus(runs, "passed")
       /\ verdict.fail_count = NumWithStatus(runs, "failed")

(***************************************************************************)
(* Vocabulary of the properties of execute_tests and execute_test          *)
(***************************************************************************)
StatusesOf(rs) == [i \in 1..Len(rs) |-> rs[i].status]

\* _cross_agent_validate has the result of a completed cross attempt
CrossCompleted(cross) == "primary_statuses" \in DOMAIN cross

\* _cross_agent_validate has the result of its except clause
CrossSetupFaulted(cross) == "error" \in DOMAIN cross

\* the repeat attempt under way has ended and its start() had raised
RepeatStartFaulted == pc = "repeat_stop" /\ ~browser.page

ExecuteTestReturned == pc = "returned"

FailedSteps == { i \in 1..Len(result.steps) : result.steps[i].status = "failed" }

(***************************************************************************)
(* C11                                                                     *)
(***************************************************************************)
\* C11: when the cross attempt completes, agrees_with_primary is true if
\* and only if the status of the cross attempt equals the status of every
\* primary run (one outlier among the runs forces false), and
\* primary_statuses lists the statuses of the primary runs in run order.
C11_CrossAgreement ==
    /\ CrossCompleted(cross_validation)
       => /\ cross_validation.agrees_with_primary
                 <=> (\A i \in 1..Len(runs) : runs[i].status = cross_validation.status)
          /\ cross_validation.primary_statuses = StatusesOf(runs)
    /\ \A k \in 1..Len(all_results) :
           LET r == all_results[k]
           IN  CrossCompleted(r.cross_validation)
               => /\ r.cross_validation.agrees_with_primary
                         <=> (\A i \in 1..Len(r.runs) :
                                  r.runs[i].status = r.cross_validation.status)
                  /\ r.cross_validation.primary_statuses = StatusesOf(r.runs)

\* the cross attempt matches the majority, one primary run is an outlier
C11_Witness ==
    /\ CrossCompleted(cross_validation)
    /\ StatusesOf(runs) = <<"passed", "passed", "failed">>
    /\ cross_validation.status = "passed"
    /\ ~cross_validation.agrees_with_primary

(***************************************************************************)
(* C12                                                                     *)
(***************************************************************************)
\* C12: when the setup of the cross validator faults (start or navigation
\* raises), _cross_agent_validate returns a result with status error and
\* agrees_with_primary false and does not raise, and the verdict of the
\* test case is still computed from the repeat runs.
\* Violated by the code: after a navigation fault the finally clause awaits
\* browser.stop(), and an exception of stop() replaces the return value.
C12_CrossSetupFaultReturns ==
    CrossSetupFaulted(cross_validation)
    => /\ cross_validation.status = "error"
       /\ ~cross_validation.agrees_with_primary
       /\ raised = None
       /\ pc \in {"record", "next_test", "returned"}
              => verdict = _determine_verdict(runs, cross_validation)

(***************************************************************************)
(* C13                                                                     *)
(***************************************************************************)
\* C13: whenever the cross-validation result has status error, the verdict
\* treats it as disagreement: agrees_with_primary is false and the
\* confidence is the base confidence minus 20 (never plus 10), also when
\* every primary run has status error.
\* Violated by the code: a cross attempt whose execute_test returns error
\* is compared like any other status, so it agrees with all-error runs.
C13_CrossErrorDisagrees ==
    \A k \in 1..Len(all_results) :
        LET r == all_results[k]
        IN  r.cross_validation.status = "error"
            => /\ ~r.cross_validation.agrees_with_primary
               /\ r.verdict.confidence =
                      Adjusted(BaseClassification(Statuses(r.runs)).confidence, FALSE)

(***************************************************************************)
(* C14                                                                     *)
(***************************************************************************)
\* C14: the runs list of every result of _execute_with_validation has
\* exactly REPEAT_VALIDATION_COUNT entries, one per attempt in run order:
\* the entry at position i has run_index i, whether the attempt passed,
\* failed or errored.
C14_RunsComplete ==
    /\ \A i \in 1..Len(runs) :
           runs[i].run_index = i - 1 /\ runs[i].status \in RunStatus
    /\ pc \in {"cross_start", "cross_navigate", "cross_execute", "cross_stop",
               "verdict", "record"}
           => Len(runs) = 3
    /\ \A k \in 1..Len(all_results) :
           LET r == all_results[k]
           IN  /\ Len(r.runs) = 3
               /\ \A i \in 1..3 :
                      r.runs[i].run_index = i - 1 /\ r.runs[i].status \in RunStatus

C14_Witness ==
    /\ Len(all_results) >= 1
    /\ StatusesOf(all_results[1].runs) = <<"error", "passed", "failed">>
    /\ all_results[1].runs[3].run_index = 2

(***************************************************************************)
(* C15                                                                     *)
(***************************************************************************)
\* C15: when the browser fails to start for a repeat attempt, the attempt
\* is recorded with status error and the repeat loop goes on: no exception
\* ends the validation of the test case.
\* Violated by the code: start() can raise after it has set an attribute
\* (the launch fails once playwright runs), the finally clause then awaits
\* a close in stop(), and an exception of that close leaves the loop.
C15_StartFaultContinues ==
    RepeatStartFaulted
    => /\ Len(runs) = run_idx + 1
       /\ runs[run_idx + 1] = [run_index |-> run_idx, status |-> "error"]
       /\ raised = None

(***************************************************************************)
(* C16                                                                     *)
(***************************************************************************)
\* C16: whatever fault the browser's start, stop, navigate or step
\* operations raise in a repeat or cross attempt, execute_tests raises no
\* exception, and when it returns every test case has a result with a
\* verdict.
\* Violated by the code: browser.stop() is awaited in finally clauses with
\* no handler around them.
C16_NoExceptionEscapes ==
    /\ raised = None
    /\ pc = "returned"
           => /\ Len(all_results) = Len(tests)
              /\ \A k \in 1..Len(all_results) :
                     all_results[k].verdict.result \in Results

(***************************************************************************)
(* C17                                                                     *)
(***************************************************************************)
\* C17: execute_test runs the steps in list order and stops at the first
\* failed step (no later step is executed or recorded); it returns passed
\* only if every step was executed and none failed, and failed with the
\* error of the failed step otherwise.
\* Violated by the code: after a failed step the final capture_all is
\* inside the same try block, and when it raises the status becomes error.
C17_StepsInOrder ==
    ExecuteTestReturned
    => /\ \A i \in 1..Len(result.steps) : result.steps[i].index = i - 1
       /\ \A i \in FailedSteps : i = Len(result.steps)
       /\ result.status = "passed"
              => /\ Len(result.steps) = Len(test_case.steps)
                 /\ FailedSteps = {}
       /\ \A i \in FailedSteps :
              /\ result.status = "failed"
              /\ result.error = result.steps[i].error

(***************************************************************************)
(* C18                                                                     *)
(***************************************************************************)
\* C18: a fault raised by a browser operation while a step runs is caught
\* and the attempt ends with status error carrying the fault's message;
\* execute_test does not raise.
\* Violated by the code: _execute_step catches the exception and marks the
\* step failed, so the attempt ends with status failed.
C18_StepFaultIsError ==
    ExecuteTestReturned
    => \A i \in FailedSteps :
           result.steps[i].error \in {PerformFault, SettleFault}
           => /\ result.status = "error"
              /\ result.error = result.steps[i].error

(***************************************************************************)
(* C19                                                                     *)
(***************************************************************************)
\* C19: an attempt that ends passed or failed has captured the final
\* artifact set exactly once, after the last executed step; and a failure
\* of artifact capture, final or per step, does not decide the status of
\* the attempt.
\* Violated by the code: a capture_all that raises in _execute_step fails
\* the step, and the final capture_all that raises makes the status error.
C19_CaptureKeepsStatus ==
    ExecuteTestReturned
    => /\ result.status \in {"passed", "failed"}
              => /\ Len(artifact_index) >= 1
                 /\ \A i \in 1..Len(artifact_index) :
                        (artifact_index[i].step_name = "final")
                            <=> (i = Len(artifact_index))
       /\ result.error # CaptureFault

(***************************************************************************)
(* C20                                                                     *)
(***************************************************************************)
\* C20: add_test_result is invoked for a test case only when its verdict is
\* PASS and its reproducibility is at least 80, never for a FAIL, FLAKY or
\* INCONCLUSIVE verdict; a write that raises changes no result and does not
\* abort the remaining test cases.
C20_LearningGate ==
    /\ \A c \in 1..Len(kb_calls) :
           \E k \in 1..Len(all_results) :
               /\ all_results[k].test_id = kb_calls[c].test_id
               /\ all_results[k].verdict.result = "PASS"
               /\ all_results[k].reproducibility >= 8000
               /\ StatusesOf(all_results[k].runs) = <<"passed", "passed", "passed">>
    /\ \A k \in 1..Len(all_results) :
           all_results[k].verdict.result \in {"FAIL", "FLAKY", "INCONCLUSIVE"}
           => \A c \in 1..Len(kb_calls) : kb_calls[c].test_id # all_results[k].test_id
    /\ \A c \in 1..Len(kb_calls) :
           kb_calls[c].raised
           => /\ test_pos > kb_calls[c].test_id
              /\ raised = None \/ pc \in {"repeat_stop", "cross_stop"}
    /\ pc = "returned" => Len(all_results) = Len(tests)

\* the write for the first test case raised, the second was still validated
C20_Witness ==
    /\ pc = "returned"
    /\ Len(tests) = 2
    /\ Len(all_results) = 2
    /\ Len(kb_calls) >= 1
    /\ kb_calls[1].test_id = 1
    /\ kb_calls[1].raised
    /\ all_results[1].verdict.result = "PASS"

(***************************************************************************)
(* Vocabulary of the properties of the reproducibility score               *)
(***************************************************************************)
\* the recorded calls of _calculate_reproducibility
ScoreCalls == { i \in 1..Len(calls) : calls[i].function = "_calculate_reproducibility" }

\* the statuses that occur most often in the run list
Modes(rs) ==
    { s \in RunStatus :
          /\ NumWithStatus(rs, s) > 0
          /\ \A t \in RunStatus : NumWithStatus(rs, t) <= NumWithStatus(rs, s) }

\* score, in hundredths of a percent, is 100 * m / n rounded to two decimals
IsRoundedShare(score, m, n) ==
    /\ 2 * (score * n - 10000 * m) <= n
    /\ 2 * (10000 * m - score * n) <= n

Unanimous(rs) == \A i, j \in 1..Len(rs) : rs[i].status = rs[j].status

(***************************************************************************)
(* C21                                                                     *)
(***************************************************************************)
\* C21: for every run list the reproducibility score lies in 0..100; it is
\* 0 only when the run list is empty and 100 only when all runs of the list
\* have the same status.
C21_ScoreRange ==
    \A i \in ScoreCalls :
        /\ calls[i].returned \in 0..(100 * 100)
        /\ calls[i].returned = 0 => calls[i].runs = <<>>
        /\ calls[i].returned = 100 * 100 => Unanimous(calls[i].runs)

\* one run of four differs: the score is 75, below 100
C21_Witness ==
    \E i \in ScoreCalls :
        /\ StatusesOf(calls[i].runs) = <<"failed", "failed", "error", "failed">>
        /\ calls[i].returned = 7500

(***************************************************************************)
(* C22                                                                     *)
(***************************************************************************)
\* C22: the score is 100*m/len(runs) rounded to two decimals, m the count
\* of the most frequent status, and 0.0 for the empty list; [passed,
\* passed, failed] gives 66.67 and five failed runs give 100.0; when two
\* statuses tie for most frequent the score is the same for either.
C22_ScoreValue ==
    \A i \in ScoreCalls :
        LET rs == calls[i].runs
            score == calls[i].returned
        IN  /\ rs = <<>> => score = 0
            /\ \A s \in Modes(rs) :
                   IsRoundedShare(score, NumWithStatus(rs, s), Len(rs))
            /\ StatusesOf(rs) = <<"passed", "passed", "failed">> => score = 6667
            /\ StatusesOf(rs) = <<"failed", "failed", "failed", "failed", "failed">>
                   => score = 10000

C22_Witness ==
    \E i \in ScoreCalls :
        /\ StatusesOf(calls[i].runs) = <<"passed", "passed", "failed">>
        /\ calls[i].returned = 6667

MajorityNotPassed(rs) ==
    /\ NumWithStatus(rs, "passed") <= NumWithStatus(rs, "failed")
    /\ ~Unanimous(rs)

\* C25 as stated: when the runs are not unanimous and passed <= failed (a
\* tie and error runs outnumbering both included) the verdict is FAIL, its
\* base confidence is 100*failed/total rounded to the nearest integer, and
\* its reason is "Majority failed: {failed}/{total}".
C25_MajorityFailedRounded ==
    (Returned /\ MajorityNotPassed(runs))
    => /\ verdict.result = "FAIL"
       /\ verdict.confidence =
              Adjusted(RoundedPercent(NumWithStatus(runs, "failed"), Len(runs)),
                       cross_validation.agrees_with_primary)
       /\ verdict.reason = <<"Majority failed: ",
                             ToString(NumWithStatus(runs, "failed")), "/",
                             ToString(Len(runs))>>

\* C25 amended: when the runs are not unanimous and passed <= failed (a tie
\* and error runs outnumbering both included) the verdict is FAIL, never
\* FLAKY or PASS, its base confidence is 100*failed/total truncated to an
\* integer (not rounded to the nearest), and its reason is
\* "Majority failed: {failed}/{total}".
C25_MajorityFailedTruncated ==
    (Returned /\ MajorityNotPassed(runs))
    => /\ verdict.result = "FAIL"
       /\ verdict.confidence =
              Adjusted(TruncatedPercent(NumWithStatus(runs, "failed"), Len(runs)),
                       cross_validation.agrees_with_primary)
       /\ verdict.reason = <<"Majority failed: ",
                             ToString(NumWithStatus(runs, "failed")), "/",
                             ToString(Len(runs))>>

\* a tie of one passed and one failed run, with an error run beside them
C25_Witness ==
    /\ Returned
    /\ StatusesOf(runs) = <<"passed", "error", "failed">>
    /\ ~cross_validation.agrees_with_primary
    /\ verdict.result = "FAIL"
    /\ verdict.confidence = 13

(***************************************************************************)
(* C23                                                                     *)
(***************************************************************************)
\* a validated result whose runs, cross validation and verdict are complete
CompleteResult(r) ==
    /\ Len(r.runs) = REPEAT_VALIDATION_COUNT
    /\ r.cross_validation.status \in RunStatus
    /\ r.verdict.result \in Results

\* C23: execute_tests returns one validated result per input test case, in
\* input order (the i-th result has the id of the i-th test), each with one
\* verdict; a result is appended only once the repeat runs, the cross
\* validation and the verdict of its test case are complete; and the
\* entries appended earlier are never changed by later test cases.
C23_ResultsInOrder ==
    /\ [](/\ Len(all_results) <= Len(tests)
          /\ \A k \in 1..Len(all_results) :
                 /\ all_results[k].test_id = tests[k].id
                 /\ CompleteResult(all_results[k])
          /\ pc = "returned" => Len(all_results) = Len(tests))
    /\ [][\/ all_results' = all_results
          \/ /\ pc = "verdict"
             /\ Len(runs) = REPEAT_VALIDATION_COUNT
             /\ cross_validation # NoCrossValidation
             /\ Len(all_results') = Len(all_results) + 1
             /\ SubSeq(all_results', 1, Len(all_results)) = all_results
             /\ all_results'[Len(all_results')].verdict = verdict'
             /\ all_results'[Len(all_results')].runs = runs
             /\ all_results'[Len(all_results')].cross_validation = cross_validation]_vars

\* two test cases, validated to different verdicts, returned in input order
C23_Witness ==
    /\ pc = "returned"
    /\ Len(tests) = 2
    /\ Len(all_results) = 2
    /\ all_results[1].test_id = 1
    /\ all_results[1].verdict.result = "FAIL"
    /\ all_results[2].test_id = 2
    /\ all_results[2].verdict.result = "PASS"

(***************************************************************************)
(* C26                                                                     *)
(***************************************************************************)
RepeatStages == {"repeat_start", "repeat_navigate", "repeat_execute", "repeat_stop"}

CrossStages == {"cross_start", "cross_navigate", "cross_execute", "cross_stop"}

\* C26: within the validation of one test case the attempts are sequential
\* and isolated: stop() of an attempt's BrowserController is invoked, on
\* success and on every fault path, before the next attempt starts, so no
\* browser of an earlier attempt is live when an attempt starts; the cross
\* attempt starts only after all repeat attempts have ended, and the
\* verdict is computed only after the cross attempt has ended.
C26_AttemptsSequential ==
    /\ [](/\ pc \in {"repeat_start", "cross_start", "verdict"}
                => browser = NewBrowserController
          /\ pc \in RepeatStages
                => /\ run_idx < REPEAT_VALIDATION_COUNT
                   /\ cross_validation = NoCrossValidation
                   /\ verdict = NoVerdict
          /\ pc = "repeat_start" => Len(runs) = run_idx
          /\ pc \in CrossStages
                => /\ Len(runs) = REPEAT_VALIDATION_COUNT
                   /\ run_idx = REPEAT_VALIDATION_COUNT
                   /\ verdict = NoVerdict
          /\ pc = "verdict" => cross_validation # NoCrossValidation
          /\ verdict # NoVerdict => pc \in {"record", "next_test", "returned"})
    /\ [][/\ (pc \in {"repeat_start", "repeat_navigate", "repeat_execute"} /\ pc' # pc)
                => pc' \in {"repeat_navigate", "repeat_execute", "repeat_stop"}
          /\ (pc \in {"cross_start", "cross_navigate", "cross_execute"} /\ pc' # pc)
                => pc' \in {"cross_navigate", "cross_execute", "cross_stop"}
          /\ (pc' = "repeat_start" /\ pc # "repeat_start")
                => pc \in {"next_test", "repeat_stop"}
          /\ (pc' = "cross_start" /\ pc # "cross_start") => pc = "repeat_stop"
          /\ (pc' = "verdict" /\ pc # "verdict") => pc = "cross_stop"]_vars

\* the cross attempt is about to start after a repeat attempt whose
\* navigation raised: that attempt's browser has been stopped
C26_Witness ==
    /\ pc = "cross_start"
    /\ StatusesOf(runs) = <<"passed", "passed", "error">>
    /\ browser = NewBrowserController

(***************************************************************************)
(* C27                                                                     *)
(***************************************************************************)
\* C27: in every result of _execute_with_validation a PASS verdict implies
\* a reproducibility of 100 (all repeat runs passed), so the learning gate's
\* reproducibility >= 80 never excludes a PASS verdict; a reproducibility
\* of 100 does not imply PASS.
C27_PassIsReproducible ==
    \A k \in 1..Len(all_results) :
        all_results[k].verdict.result = "PASS"
        => /\ all_results[k].reproducibility = 100 * 100
           /\ AllStatus(all_results[k].runs, "passed")
           /\ LearningGate(all_results[k])

\* one result is PASS with reproducibility 100, another has reproducibility
\* 100 and is not PASS: its runs all passed and the cross attempt failed
C27_Witness ==
    /\ Len(all_results) = 2
    /\ all_results[1].verdict.result = "PASS"
    /\ all_results[1].reproducibility = 100 * 100
    /\ all_results[2].reproducibility = 100 * 100
    /\ AllStatus(all_results[2].runs, "passed")
    /\ all_results[2].verdict.result = "FLAKY"

(***************************************************************************)
(* Vocabulary of the properties of the session endpoints                   *)
(***************************************************************************)
\* the step answers a request
Answers == response'.n # response.n

\* the step answers a request to one of the endpoints that take a session id
AnswersSessionRequest == Answers /\ response'.endpoint \in SessionEndpoints

\* the data of a later stage is present only with the data of the stage before
StagesInOrder(session) ==
    /\ session.test_cases # <<>> => session.game_analysis # NoAnalysis
    /\ session.ranked_tests # <<>> => session.test_cases # <<>>
    /\ session.execution_results # <<>> => session.ranked_tests # <<>>
    /\ session.report # NoReport => session.execution_results # <<>>

(***************************************************************************)
(* C28                                                                     *)
(***************************************************************************)
\* C28: whenever browser.start() returned in analyze_game, browser.stop()
\* is called before the request completes, also when the request ends with
\* the session marked error.
C28_AnalyzeStopsBrowser ==
    (response.n > 0 /\ response.endpoint = "analyze" /\ response.started)
    => response.stop_called

\* start() returned, stop() was called and raised: the session is marked
\* error and the request ends with 500
C28_Witness ==
    /\ response.n > 0
    /\ response.endpoint = "analyze"
    /\ response.started
    /\ response.stop_called
    /\ response.code = 500
    /\ sessions[response.session_id].status = "error"

(***************************************************************************)
(* C29                                                                     *)
(***************************************************************************)
\* C29: generate-tests, rank-tests, execute-tests and report answer 404 to
\* an unknown session id and 400 when the data of the stage before is
\* missing (game_analysis, test_cases, ranked_tests, execution_results),
\* and only then; a request is taken up only with that data present; and a
\* rejection leaves the sessions table, the status of the session included,
\* as it was.
C29_StageOrder ==
    /\ [](\A session_id \in DOMAIN sessions : StagesInOrder(sessions[session_id]))
    /\ [][AnswersSessionRequest
          => LET endpoint == response'.endpoint
                 session_id == response'.session_id
                 known == session_id \in DOMAIN sessions
             IN  /\ response'.code = 404 <=> ~known
                 /\ response'.code = 400
                        <=> (known /\ ~Prerequisite(endpoint, sessions[session_id]))
                 /\ response'.code \in {404, 400} => sessions' = sessions]_vars
    /\ [][(inflight' # inflight /\ inflight' # NoRequest
              /\ inflight'.endpoint \in SessionEndpoints)
          => /\ inflight'.session_id \in DOMAIN sessions
             /\ Prerequisite(inflight'.endpoint, sessions[inflight'.session_id])]_vars

\* execute-tests asked of a session whose tests are generated, not ranked
C29_Witness ==
    /\ response.n > 0
    /\ response.endpoint = "execute"
    /\ response.code = 400
    /\ sessions[response.session_id].status = "tests_generated"
    /\ sessions[response.session_id].test_cases # <<>>
    /\ sessions[response.session_id].ranked_tests = <<>>

(***************************************************************************)
(* C30                                                                     *)
(***************************************************************************)
\* C30: the report get_report returns reflects the execution_results the
\* session has at that moment: its test_results correspond one to one, in
\* order, to the results stored by the latest execute-tests that succeeded.
\* Violated by the code: get_report generates the report only while the
\* session has none, and execute_tests does not clear session["report"],
\* so after a second execution the report of the first one is returned.
C30_ReportIsCurrent ==
    [][(Answers /\ response'.endpoint = "report" /\ response'.code = 200)
       => LET results == sessions'[response'.session_id].execution_results
              test_results == response'.body.test_results
          IN  /\ Len(test_results) = Len(results)
              /\ \A i \in 1..Len(results) :
                     /\ test_results[i].test_id = results[i].test_id
                     /\ test_results[i].verdict = results[i].verdict]_vars

====
